---------------------------- MODULE Spec2Model ----------------------------
(***************************************************************************)
(* A model of image_router.py: the release classifier (Release), the       *)
(* refresh task (create_map_loop / create_map) and the redirect handler    *)
(* (request_handler), as they run on one asyncio event loop.               *)
(*                                                                         *)
(* Python strings are TLA+ strings; dicts are functions; the dicts whose   *)
(* identity matters (the mapping and the per-repository dicts, which are   *)
(* written to after they are created) live in a heap of numbered objects,  *)
(* so that two references to one dict are told from two equal dicts.       *)
(***************************************************************************)
EXTENDS Naturals, Sequences, FiniteSets, TLC

(***************************************************************************)
(* Characters and the character classes of the regular expressions.        *)
(***************************************************************************)
LowerChars ==
  {"a","b","c","d","e","f","g","h","i","j","k","l","m",
   "n","o","p","q","r","s","t","u","v","w","x","y","z"}

UpperChars ==
  {"A","B","C","D","E","F","G","H","I","J","K","L","M",
   "N","O","P","Q","R","S","T","U","V","W","X","Y","Z"}

DigitChars == {"0","1","2","3","4","5","6","7","8","9"}

\* str.lower() on one character
LowerOf ==
  [c \in UpperChars |->
     CASE c = "A" -> "a" [] c = "B" -> "b" [] c = "C" -> "c" [] c = "D" -> "d"
       [] c = "E" -> "e" [] c = "F" -> "f" [] c = "G" -> "g" [] c = "H" -> "h"
       [] c = "I" -> "i" [] c = "J" -> "j" [] c = "K" -> "k" [] c = "L" -> "l"
       [] c = "M" -> "m" [] c = "N" -> "n" [] c = "O" -> "o" [] c = "P" -> "p"
       [] c = "Q" -> "q" [] c = "R" -> "r" [] c = "S" -> "s" [] c = "T" -> "t"
       [] c = "U" -> "u" [] c = "V" -> "v" [] c = "W" -> "w" [] c = "X" -> "x"
       [] c = "Y" -> "y" [] c = "Z" -> "z"]

CharAt(s, i) == SubSeq(s, i, i)

\* str.startswith(prefix)
StartsWith(s, prefix) ==
  /\ Len(s) >= Len(prefix)
  /\ SubSeq(s, 1, Len(prefix)) = prefix

\* "needle in s" for strings
Contains(s, needle) ==
  \E i \in 1..(Len(s) + 1) :
    /\ i + Len(needle) - 1 <= Len(s)
    /\ SubSeq(s, i, i + Len(needle) - 1) = needle

\* s.split(sep) for a one-character separator: the list of the pieces
RECURSIVE SplitFrom(_, _, _, _)
SplitFrom(s, sep, i, piece) ==
  IF i > Len(s) THEN <<piece>>
  ELSE IF CharAt(s, i) = sep
       THEN <<piece>> \o SplitFrom(s, sep, i + 1, "")
       ELSE SplitFrom(s, sep, i + 1, piece \o CharAt(s, i))

Split(s, sep) == SplitFrom(s, sep, 1, "")

(***************************************************************************)
(* The compiled patterns.  A pattern is a sequence of elements: a literal, *)
(* a named group "class+", or "." (any character).                         *)
(***************************************************************************)
Lit(text)       == [t |-> "lit",  s |-> text, cls |-> {},    g |-> ""]
Group(name, cs) == [t |-> "plus", s |-> "",   cls |-> cs,    g |-> name]
AnyChar         == [t |-> "any",  s |-> "",   cls |-> {},    g |-> ""]

AlnumChars == LowerChars \cup UpperChars \cup DigitChars
ArchChars  == LowerChars \cup DigitChars
ModelChars == LowerChars \cup DigitChars \cup UpperChars \cup {"-", ".", "_"}

DROIDIAN_ROOTFS ==
  << Lit("droidian-rootfs-"), Group("", AlnumChars), Lit("-"),
     Group("architecture", ArchChars), Lit("_"), Group("date", DigitChars),
     AnyChar, Lit("zip") >>

DROIDIAN_ADAPTATION ==
  << Lit("droidian-adaptation-"), Group("vendor", AlnumChars), Lit("-"),
     Group("model", ModelChars), Lit("-"),
     Group("architecture", ArchChars), Lit("_"), Group("date", DigitChars),
     AnyChar, Lit("zip") >>

\* a feature pattern whose feature may hold "-", "." and "_"
DROIDIAN_FEATURE_WIDE ==
  << Lit("droidian-"), Group("feature", ModelChars), Lit("-"),
     Group("architecture", ArchChars), Lit("_"), Group("date", DigitChars),
     AnyChar, Lit("zip") >>

DROIDIAN_FEATURE ==
  << Lit("droidian-"), Group("feature", AlnumChars), Lit("-"),
     Group("architecture", ArchChars), Lit("_"), Group("date", DigitChars),
     AnyChar, Lit("zip") >>

NoMatch == [matched |-> FALSE, groups |-> <<>>]

\* the length of the longest run of characters of cs in s from position i
RECURSIVE RunLen(_, _, _)
RunLen(s, i, cs) ==
  IF i <= Len(s) /\ CharAt(s, i) \in cs THEN 1 + RunLen(s, i + 1, cs) ELSE 0

\* regex.match(s): the pattern matched at the start of s, as the backtracking
\* matcher finds it: a group takes the longest run that lets the rest match.
RECURSIVE MatchFrom(_, _, _, _, _)
RECURSIVE MatchGroup(_, _, _, _, _, _)
MatchFrom(re, k, s, i, groups) ==
  IF k > Len(re) THEN [matched |-> TRUE, groups |-> groups]
  ELSE LET e == re[k] IN
    CASE e.t = "lit" ->
           IF /\ i + Len(e.s) - 1 <= Len(s)
              /\ SubSeq(s, i, i + Len(e.s) - 1) = e.s
           THEN MatchFrom(re, k + 1, s, i + Len(e.s), groups)
           ELSE NoMatch
      [] e.t = "any" ->
           IF i <= Len(s) /\ CharAt(s, i) # "\n"
           THEN MatchFrom(re, k + 1, s, i + 1, groups)
           ELSE NoMatch
      [] e.t = "plus" -> MatchGroup(re, k, s, i, RunLen(s, i, e.cls), groups)

MatchGroup(re, k, s, i, n, groups) ==
  IF n = 0 THEN NoMatch
  ELSE LET e    == re[k]
           got  == SubSeq(s, i, i + n - 1)
           gs   == IF e.g = "" THEN groups
                   ELSE [x \in DOMAIN groups \cup {e.g} |->
                           IF x = e.g THEN got ELSE groups[x]]
           rest == MatchFrom(re, k + 1, s, i + n, gs)
       IN IF rest.matched THEN rest
          ELSE MatchGroup(re, k, s, i, n - 1, groups)

Match(re, s) == MatchFrom(re, 1, s, 1, <<>>)


(***************************************************************************)
(* Configuration.                                                          *)
(***************************************************************************)
IMAGES_REPOSITORIES == << "droidian-images/rootfs-api28gsi-all" >>

ALLOWED_PREFIXES ==
  { "https://github.com/" \o IMAGES_REPOSITORIES[n] \o "/" :
      n \in DOMAIN IMAGES_REPOSITORIES }

\* str.startswith(tuple): some prefix of the tuple starts the string
StartsWithAny(s, prefixes) == \E p \in prefixes : StartsWith(s, p)

\* repository.split("/")[-1]
ShortName(repository) ==
  LET parts == Split(repository, "/") IN parts[Len(parts)]

(***************************************************************************)
(* slugify: lower-case, then every run of characters outside [a-z0-9_]     *)
(* becomes one "-".                                                        *)
(***************************************************************************)
SlugChars == LowerChars \cup DigitChars \cup {"_"}

RECURSIVE Lowered(_, _)
Lowered(s, i) ==
  IF i > Len(s) THEN ""
  ELSE LET c == CharAt(s, i) IN
       (IF c \in UpperChars THEN LowerOf[c] ELSE c) \o Lowered(s, i + 1)

Lower(s) == Lowered(s, 1)

\* not_allowed_regex.sub("-", s)
RECURSIVE SubNotAllowed(_, _, _)
SubNotAllowed(s, i, inRun) ==
  IF i > Len(s) THEN ""
  ELSE LET c == CharAt(s, i) IN
       IF c \in SlugChars
       THEN c \o SubNotAllowed(s, i + 1, FALSE)
       ELSE (IF inRun THEN "" ELSE "-") \o SubNotAllowed(s, i + 1, TRUE)

slugify(string) == SubNotAllowed(Lower(string), 1, FALSE)

(***************************************************************************)
(* Release(dict): the classification of one release's assets.  The value   *)
(* is the dict the constructor leaves: architecture -> vendor -> target    *)
(* -> download URL.  The inner dicts are created and written only inside   *)
(* the constructor, so they are kept as values.                            *)
(***************************************************************************)
EmptyDict == <<>>

\* d[k] = v on a dict value
DictSet(d, k, v) ==
  [x \in DOMAIN d \cup {k} |-> IF x = k THEN v ELSE d[x]]

\* d.setdefault(k, default), as the dict it leaves
SetDefault(d, k, default) == IF k \in DOMAIN d THEN d ELSE DictSet(d, k, default)

\* gdict.get(k, default)
DictGet(d, k, default) == IF k \in DOMAIN d THEN d[k] ELSE default

\* a target name that, for an adaptation, carries the vendor as well
TargetWithVendor(gdict) ==
  IF "model" \in DOMAIN gdict
  THEN "adaptation-" \o gdict["vendor"] \o "-" \o gdict["model"] \o ".zip"
  ELSE IF "feature" \in DOMAIN gdict THEN "feature-" \o gdict["feature"] \o ".zip"
  ELSE "rootfs.zip"

\* the target name chosen from the groups of the match
Target(gdict) ==
  IF "model" \in DOMAIN gdict THEN "adaptation-" \o gdict["model"] \o ".zip"
  ELSE IF "feature" \in DOMAIN gdict THEN "feature-" \o gdict["feature"] \o ".zip"
  ELSE "rootfs.zip"

\* a test of the URL that looks at the host alone
TrustedHost(asset) == StartsWith(asset.browser_download_url, "https://github.com/")

\* whether the asset's URL may be stored
Trusted(asset) == StartsWithAny(asset.browser_download_url, ALLOWED_PREFIXES)

\* a body of the inner loop that keeps the URL a target already has
ApplyMatchKeep(self, asset, gdict) ==
  LET arch     == gdict["architecture"]
      vendor   == DictGet(gdict, "vendor", "generic")
      self1    == SetDefault(self, arch, EmptyDict)
      archD    == SetDefault(self1[arch], vendor, EmptyDict)
      vendorD  == IF Trusted(asset)
                  THEN SetDefault(archD[vendor], Target(gdict), asset.browser_download_url)
                  ELSE archD[vendor]
  IN DictSet(self1, arch, DictSet(archD, vendor, vendorD))

\* the body of the inner loop for one pattern that matched
ApplyMatch(self, asset, gdict) ==
  LET arch     == gdict["architecture"]
      vendor   == DictGet(gdict, "vendor", "generic")
      self1    == SetDefault(self, arch, EmptyDict)
      archD    == SetDefault(self1[arch], vendor, EmptyDict)
      vendorD  == IF Trusted(asset)
                  THEN DictSet(archD[vendor], Target(gdict), asset.browser_download_url)
                  ELSE archD[vendor]
  IN DictSet(self1, arch, DictSet(archD, vendor, vendorD))

Patterns == << DROIDIAN_ROOTFS, DROIDIAN_ADAPTATION, DROIDIAN_FEATURE >>

\* the inner loop: every pattern is tried in turn, a match does not end the loop
RECURSIVE ClassifyAsset(_, _, _)
ClassifyAsset(self, asset, k) ==
  IF k > Len(Patterns) THEN self
  ELSE LET m == Match(Patterns[k], asset.name) IN
       ClassifyAsset(IF m.matched THEN ApplyMatch(self, asset, m.groups) ELSE self,
                     asset, k + 1)

\* the outer loop over release_contents["assets"]
RECURSIVE ClassifyAssets(_, _, _)
ClassifyAssets(self, assets, n) ==
  IF n > Len(assets) THEN self
  ELSE ClassifyAssets(ClassifyAsset(self, assets[n], 1), assets, n + 1)

Release(release_contents) == ClassifyAssets(EmptyDict, release_contents.assets, 1)


(***************************************************************************)
(* The heap.  An object is a dict with an identity: heap[id] is what the   *)
(* dict holds.  The mapping holds, per repository short name, the id of    *)
(* a repository dict; a repository dict holds, per release name, a         *)
(* Release.  A Release is not written to once its constructor returns, so  *)
(* it is kept as a value: two names bound to one Release hold equal values.*)
(***************************************************************************)
None == 0

\* {} : the id a new object gets, the first one not in use
Fresh(h) ==
  CHOOSE n \in 1..(Cardinality(DOMAIN h) + 1) :
    /\ n \notin DOMAIN h
    /\ \A m \in 1..(n - 1) : m \in DOMAIN h

\* the heap with a new object id holding dict d
New(h, id, d) == [x \in DOMAIN h \cup {id} |-> IF x = id THEN d ELSE h[x]]

\* obj[k] = v on the object id
Store(h, id, k, v) == [h EXCEPT ![id] = DictSet(h[id], k, v)]

Range(d) == { d[k] : k \in DOMAIN d }

\* the objects a mapping reaches: itself and its repository dicts
ReachableFrom(h, root) ==
  IF root = None THEN {} ELSE {root} \cup Range(h[root])

\* reference counting: an object no reference reaches is freed
Collect(h, roots) ==
  LET live == UNION { ReachableFrom(h, r) : r \in roots }
  IN [x \in live |-> h[x]]

\* the catalog a mapping object holds, as a value:
\* repository -> release name -> architecture -> vendor -> file -> URL
Deep(h, root) ==
  [r \in DOMAIN h[root] |-> h[h[root][r]]]

(***************************************************************************)
(* What the remote source may answer.                                      *)
(***************************************************************************)
TrustedBase   == "https://github.com/droidian-images/rootfs-api28gsi-all/releases/download/"
UntrustedBase == "https://github.com/droidian-images/other/releases/download/"
RootfsName    == "droidian-rootfs-api28gsi-arm64_20210101.zip"

Asset(name, url) == [name |-> name, browser_download_url |-> url]

\* a nightly, a release, a release whose tag gives the same slug and whose
\* asset is of another origin, and a release of that slug again with no image
\* among its assets
ReleaseSamples ==
  { [tag_name |-> "Nightly/2",
     assets   |-> << Asset(RootfsName, TrustedBase \o "nightly/2/" \o RootfsName) >>],
    [tag_name |-> "bullseye",
     assets   |-> << Asset(RootfsName, TrustedBase \o "bullseye/" \o RootfsName) >>],
    [tag_name |-> "Bullseye",
     assets   |-> << Asset(RootfsName, UntrustedBase \o "Bullseye/" \o RootfsName) >>],
    [tag_name |-> "BULLSEYE",
     assets   |-> << Asset("SHA256SUMS", TrustedBase \o "BULLSEYE/SHA256SUMS") >>] }

\* a release whose tag is the name of the alias
AliasNamed ==
  [tag_name |-> "droidian-stable-latest",
   assets   |-> << Asset(RootfsName, TrustedBase \o "droidian-stable-latest/" \o RootfsName) >>]

MaxReleases == 3

RECURSIVE SeqsUpTo(_, _)
SeqsUpTo(S, n) ==
  IF n = 0 THEN { <<>> }
  ELSE LET shorter == SeqsUpTo(S, n - 1)
       IN shorter \cup { Append(q, x) : q \in {t \in shorter : Len(t) = n - 1}, x \in S }

\* the bodies response.json() may return: every list of the samples, and the
\* release named as the alias alone, before and after a release, after a nightly
Contents ==
  SeqsUpTo(ReleaseSamples, MaxReleases) \cup
  { << AliasNamed >> } \cup
  { << x, AliasNamed >> : x \in { y \in ReleaseSamples : y.assets[1].name = RootfsName } } \cup
  { << AliasNamed, x >> : x \in { y \in ReleaseSamples : y.tag_name = "bullseye" } }

Statuses == {200, 500}

\* response.headers: with or without a Content-Type
Headers ==
  { EmptyDict } \cup
  { [x \in {"Content-Type"} |-> ct] :
      ct \in {"application/json; charset=utf-8", "text/html"} }

NoResponse == [status |-> 0, headers |-> EmptyDict]

(***************************************************************************)
(* The requests the front door may hand to request_handler.                *)
(***************************************************************************)
Request(r, v, a, vd, f) ==
  [repository |-> r, version |-> v, architecture |-> a, vendor |-> vd, file |-> f]

Requests ==
  { Request("rootfs-api28gsi-all", v, "arm64", "generic", "rootfs.zip") :
      v \in {"bullseye", "nightly-2", "stable-0", "droidian-stable-latest"} }
  \cup
  { Request("other", "bullseye", "arm64", "generic", "rootfs.zip"),
    Request("rootfs-api28gsi-all", "bullseye", "armhf", "generic", "rootfs.zip"),
    Request("rootfs-api28gsi-all", "bullseye", "arm64", "fxtec", "rootfs.zip"),
    Request("rootfs-api28gsi-all", "bullseye", "arm64", "generic", "feature-devtools.zip") }

HTTPFound(location) == [status |-> 302, location |-> location]
HTTPNotFound        == [status |-> 404, location |-> ""]
NoAnswer            == [status |-> 0, location |-> "", request |-> Request("", "", "", "", "")]

(***************************************************************************)
(* State.                                                                  *)
(***************************************************************************)
VARIABLES
  mapping,      \* self.mapping: the id of the dict the handler reads
  heap,         \* the dict objects
  pc,           \* where the refresh task stands
  new_mapping,  \* create_map's local: the id of the dict being built, or None
  repo_index,   \* the position of the loop over IMAGES_REPOSITORIES
  repo_dict,    \* create_map's local: the id of the repository's dict
  response,     \* the response create_map holds while it awaits its body
  answer,       \* the response request_handler raised last, until it is sent
  snapshot,     \* history: the catalog create_map returned last, as a value
  last_fetch,   \* history: per repository, what its latest fetch gave
  release_contents, \* Release.__init__: its argument
  classified,       \* Release.__init__: self, the dict it fills
  asset_index       \* Release.__init__: the assets its loop has gone through

vars == << mapping, heap, pc, new_mapping, repo_index, repo_dict, response,
           answer, snapshot, last_fetch,
           release_contents, classified, asset_index >>

\* the state of a constructor of Release
constructor == << release_contents, classified, asset_index >>

\* the state of the router: the refresh task and the handler
router == << mapping, heap, pc, new_mapping, repo_index, repo_dict, response,
             answer, snapshot, last_fetch >>

ShortNames == { ShortName(IMAGES_REPOSITORIES[n]) : n \in DOMAIN IMAGES_REPOSITORIES }

\* what a fetch gave: nothing yet, an exception of session.get, or a response
\* with its status and headers and, once response.json() has returned, its body
NoFetch == [kind |-> "none", status |-> 0, headers |-> EmptyDict,
            body |-> "unread", content |-> <<>>]

FetchRaised == [kind |-> "raised", status |-> 0, headers |-> EmptyDict,
                body |-> "unread", content |-> <<>>]

FetchResponse(resp, body, content) ==
  [kind |-> "response", status |-> resp.status, headers |-> resp.headers,
   body |-> body, content |-> content]

\* no constructor of Release is under way
NoRelease == [tag_name |-> "", assets |-> <<>>]

\* a router that starts with a release of the first repository in its mapping
RouterInitLoaded ==
  /\ mapping = 1
  /\ heap = [x \in {1, 2} |->
               IF x = 1 THEN [r \in {ShortName(IMAGES_REPOSITORIES[1])} |-> 2]
               ELSE [v \in {"bullseye"} |->
                       Release([tag_name |-> "bullseye",
                                assets |-> << Asset(RootfsName, TrustedBase \o "bullseye/" \o RootfsName) >>])]]
  /\ pc = "start"
  /\ new_mapping = None
  /\ repo_index = 0
  /\ repo_dict = None
  /\ response = NoResponse
  /\ answer = NoAnswer
  /\ snapshot = EmptyDict
  /\ last_fetch = [r \in ShortNames |-> NoFetch]

RouterInit ==
  /\ mapping = 1
  /\ heap = [x \in {1} |-> EmptyDict]
  /\ pc = "start"
  /\ new_mapping = None
  /\ repo_index = 0
  /\ repo_dict = None
  /\ response = NoResponse
  /\ answer = NoAnswer
  /\ snapshot = EmptyDict
  /\ last_fetch = [r \in ShortNames |-> NoFetch]

Init ==
  /\ RouterInit
  /\ release_contents = NoRelease
  /\ classified = EmptyDict
  /\ asset_index = 0

(***************************************************************************)
(* request_handler: the five lookups; a KeyError at any level is a 404.    *)
(***************************************************************************)
\* a handler that, for a vendor it does not find, serves the generic one
request_handler_generic(request) ==
  LET top == heap[mapping] IN
  IF request.repository \notin DOMAIN top THEN HTTPNotFound
  ELSE LET repo == heap[top[request.repository]] IN
  IF request.version \notin DOMAIN repo THEN HTTPNotFound
  ELSE LET rel == repo[request.version] IN
  IF request.architecture \notin DOMAIN rel THEN HTTPNotFound
  ELSE LET archD == rel[request.architecture]
           vd    == IF request.vendor \in DOMAIN archD THEN request.vendor ELSE "generic" IN
  IF vd \notin DOMAIN archD THEN HTTPNotFound
  ELSE LET vendorD == archD[vd] IN
  IF request.file \notin DOMAIN vendorD THEN HTTPNotFound
  ELSE HTTPFound(vendorD[request.file])

request_handler(request) ==
  LET top == heap[mapping] IN
  IF request.repository \notin DOMAIN top THEN HTTPNotFound
  ELSE LET repo == heap[top[request.repository]] IN
  IF request.version \notin DOMAIN repo THEN HTTPNotFound
  ELSE LET rel == repo[request.version] IN
  IF request.architecture \notin DOMAIN rel THEN HTTPNotFound
  ELSE LET archD == rel[request.architecture] IN
  IF request.vendor \notin DOMAIN archD THEN HTTPNotFound
  ELSE LET vendorD == archD[request.vendor] IN
  IF request.file \notin DOMAIN vendorD THEN HTTPNotFound
  ELSE HTTPFound(vendorD[request.file])

\* the response the handler raises, with the request it answers
Answer(request, raised) ==
  [status |-> raised.status, location |-> raised.location, request |-> request]

\* a handler that waits for the refresh cycle to end before it looks up
RequestHandlerAfterCycle(request) ==
  /\ pc \notin {"get", "json", "exit"}
  /\ answer' = Answer(request, request_handler(request))
  /\ UNCHANGED << mapping, heap, pc, new_mapping, repo_index, repo_dict,
                  response, snapshot, last_fetch >>
  /\ UNCHANGED constructor

\* the handler has no await: it runs to its end whenever a request comes in
RequestHandler(request) ==
  /\ answer' = Answer(request, request_handler(request))
  /\ UNCHANGED << mapping, heap, pc, new_mapping, repo_index, repo_dict,
                  response, snapshot, last_fetch >>
  /\ UNCHANGED constructor

(***************************************************************************)
(* create_map_loop and create_map.  The task runs from one await to the    *)
(* next without interruption; pc names the await it is suspended at:       *)
(*   "start"  created, not yet run         "get"    session.get(...)       *)
(*   "json"   response.json()              "exit"   leaving the async with *)
(*   "sleep"  asyncio.sleep                "dead"   ended by an exception  *)
(* A response raised by the handler is sent before the task runs again,    *)
(* so every step of the task leaves answer empty.                          *)
(***************************************************************************)
NoStable == [found |-> FALSE, name |-> ""]

\* building in the dict that is published, instead of a new one
SameMapping == mapping

\* new_mapping = {}
NewMapping == Fresh(heap)

\* a setdefault whose default is the repository dict that is published
SetDefaultPublished(h, top, name) ==
  IF name \in DOMAIN h[top] THEN [heap |-> h, id |-> h[top][name]]
  ELSE IF name \in DOMAIN h[mapping]
       THEN [heap |-> Store(h, top, name, h[mapping][name]), id |-> h[mapping][name]]
       ELSE LET id == Fresh(h)
            IN [heap |-> Store(New(h, id, EmptyDict), top, name, id), id |-> id]

\* repo_dict = new_mapping.setdefault(name, {}): the heap it leaves and the id
SetDefaultRepo(h, top, name) ==
  IF name \in DOMAIN h[top] THEN [heap |-> h, id |-> h[top][name]]
  ELSE LET id == Fresh(h)
       IN [heap |-> Store(New(h, id, EmptyDict), top, name, id), id |-> id]

\* an insertion that keeps the release the name already has
InsertReleaseOnce(h, rd, release_name, rel) ==
  IF release_name \in DOMAIN h[rd] THEN h ELSE Store(h, rd, release_name, rel)

\* repo_dict[release_name] = rel
InsertRelease(h, rd, release_name, rel) == Store(h, rd, release_name, rel)

\* a choice that does not look for "nightly" in the name
UpdateStableAny(latest_stable, release_name) ==
  IF ~latest_stable.found
  THEN [found |-> TRUE, name |-> release_name]
  ELSE latest_stable

\* lines 134-135: the first release that is not a nightly is remembered
UpdateStable(latest_stable, release_name) ==
  IF ~latest_stable.found /\ ~Contains(release_name, "nightly")
  THEN [found |-> TRUE, name |-> release_name]
  ELSE latest_stable

\* the loop over content: one release after the other
RECURSIVE ProcessReleases(_, _, _, _, _)
ProcessReleases(h, rd, content, n, latest_stable) ==
  IF n > Len(content) THEN [heap |-> h, latest_stable |-> latest_stable]
  ELSE LET release      == content[n]
           release_name == slugify(release.tag_name)
           rel          == Release(release)
       IN IF DOMAIN rel # {}
          THEN ProcessReleases(InsertRelease(h, rd, release_name, rel), rd, content,
                               n + 1, UpdateStable(latest_stable, release_name))
          ELSE ProcessReleases(h, rd, content, n + 1, latest_stable)

\* an alias that leaves a release of its name in place
StableAliasKeep(h, rd, latest_stable) ==
  IF latest_stable.found /\ "droidian-stable-latest" \notin DOMAIN h[rd]
  THEN Store(h, rd, "droidian-stable-latest", h[rd][latest_stable.name])
  ELSE h

\* repo_dict["droidian-stable-latest"] = repo_dict[latest_stable]
StableAlias(h, rd, latest_stable) ==
  IF latest_stable.found
  THEN Store(h, rd, "droidian-stable-latest", h[rd][latest_stable.name])
  ELSE h

\* a filling that starts from the releases the published repository holds
FillRepositoryOver(h, rd, content) ==
  LET top  == h[mapping]
      name == ShortName(IMAGES_REPOSITORIES[repo_index])
      old  == IF name \in DOMAIN top THEN h[top[name]] ELSE EmptyDict
      done == ProcessReleases([h EXCEPT ![rd] = old], rd, content, 1, NoStable)
  IN StableAlias(done.heap, rd, done.latest_stable)

\* lines 125-138 for one repository
FillRepository(h, rd, content) ==
  LET done == ProcessReleases(h, rd, content, 1, NoStable)
  IN StableAlias(done.heap, rd, done.latest_stable)

\* the next turn of the loop over the repositories, or its end
NextRepository ==
  IF repo_index < Len(IMAGES_REPOSITORIES)
  THEN /\ repo_index' = repo_index + 1
       /\ pc' = "get"
  ELSE /\ repo_index' = repo_index
       /\ pc' = "exit"

\* an end by an exception that leaves what was built so far as the mapping
RaisePublishing ==
  /\ pc' = "dead"
  /\ mapping' = new_mapping
  /\ new_mapping' = None
  /\ repo_dict' = None
  /\ response' = NoResponse
  /\ heap' = Collect(heap, {new_mapping})
  /\ answer' = NoAnswer
  /\ UNCHANGED << repo_index, snapshot >>
  /\ UNCHANGED constructor

\* the task ends with an exception: its frame and its locals are gone
Raise ==
  /\ pc' = "dead"
  /\ new_mapping' = None
  /\ repo_dict' = None
  /\ response' = NoResponse
  /\ heap' = Collect(heap, {mapping})
  /\ answer' = NoAnswer
  /\ UNCHANGED << mapping, repo_index, snapshot >>
  /\ UNCHANGED constructor

CurrentShortName == ShortName(IMAGES_REPOSITORIES[repo_index])

\* the loop body starts (the first time, or after the sleep): create_map is
\* called, new_mapping = {} and the first session.get is awaited
CreateMapStart ==
  /\ pc \in {"start", "sleep"}
  /\ new_mapping' = NewMapping
  /\ heap' = New(heap, NewMapping, EmptyDict)
  /\ repo_dict' = None
  /\ response' = NoResponse
  /\ answer' = NoAnswer
  /\ IF Len(IMAGES_REPOSITORIES) > 0
     THEN repo_index' = 1 /\ pc' = "get"
     ELSE repo_index' = 0 /\ pc' = "exit"
  /\ UNCHANGED << mapping, snapshot, last_fetch >>
  /\ UNCHANGED constructor

\* session.get raises (aiohttp.ClientError, a timeout): nothing catches it
GetRaises ==
  /\ pc = "get"
  /\ Raise
  /\ last_fetch' = [last_fetch EXCEPT ![CurrentShortName] = FetchRaised]

\* a test of the response that looks at the status alone
UnparsableStatus(resp) == resp.status # 200

\* whether lines 117-118 take the response for a failure
Unparsable(resp) ==
  \/ resp.status # 200
  \/ \A part \in Range(Split(resp.headers["Content-Type"], ";")) :
       part # "application/json"

\* session.get returns a response: lines 115-121
GetResponds(resp) ==
  /\ pc = "get"
  /\ LET got == SetDefaultRepo(heap, new_mapping, CurrentShortName)
     IN IF resp.status = 200 /\ "Content-Type" \notin DOMAIN resp.headers
        THEN \* headers.get gives None, None.split raises AttributeError
             /\ Raise
             /\ last_fetch' = [last_fetch EXCEPT ![CurrentShortName] =
                                 FetchResponse(resp, "unread", <<>>)]
        ELSE IF Unparsable(resp)
        THEN \* continue
             /\ heap' = got.heap
             /\ repo_dict' = got.id
             /\ response' = NoResponse
             /\ answer' = NoAnswer
             /\ NextRepository
             /\ last_fetch' = [last_fetch EXCEPT ![CurrentShortName] =
                                 FetchResponse(resp, "unread", <<>>)]
             /\ UNCHANGED << mapping, new_mapping, snapshot >>
             /\ UNCHANGED constructor
        ELSE \* await response.json()
             /\ heap' = got.heap
             /\ repo_dict' = got.id
             /\ response' = resp
             /\ answer' = NoAnswer
             /\ pc' = "json"
             /\ last_fetch' = [last_fetch EXCEPT ![CurrentShortName] =
                                 FetchResponse(resp, "unread", <<>>)]
             /\ UNCHANGED << mapping, new_mapping, repo_index, snapshot >>
             /\ UNCHANGED constructor

\* response.json() returns the list of releases: lines 125-138
JsonReturns(content) ==
  /\ pc = "json"
  /\ heap' = FillRepository(heap, repo_dict, content)
  /\ response' = NoResponse
  /\ answer' = NoAnswer
  /\ NextRepository
  /\ last_fetch' = [last_fetch EXCEPT ![CurrentShortName] =
                      FetchResponse(response, "read", content)]
  /\ UNCHANGED << mapping, new_mapping, repo_dict, snapshot >>
  /\ UNCHANGED constructor

\* response.json() raises (a body that is no JSON), or a release lacks
\* "tag_name" or "assets" (KeyError): nothing catches it
JsonRaises ==
  /\ pc = "json"
  /\ Raise
  /\ last_fetch' = [last_fetch EXCEPT ![CurrentShortName] =
                      FetchResponse(response, "raised", <<>>)]

\* create_map returns: self.mapping = new_mapping, then the sleep is awaited
Publish ==
  /\ pc = "exit"
  /\ mapping' = new_mapping
  /\ heap' = Collect(heap, {new_mapping})
  /\ snapshot' = Deep(heap, new_mapping)
  /\ new_mapping' = None
  /\ repo_dict' = None
  /\ pc' = "sleep"
  /\ answer' = NoAnswer
  /\ UNCHANGED << repo_index, response, last_fetch >>
  /\ UNCHANGED constructor

Next ==
  \/ CreateMapStart
  \/ GetRaises
  \/ \E status \in Statuses, headers \in Headers :
       GetResponds([status |-> status, headers |-> headers])
  \/ \E content \in Contents : JsonReturns(content)
  \/ JsonRaises
  \/ Publish
  \/ \E request \in Requests : RequestHandler(request)

Spec == Init /\ [][Next]_vars

(***************************************************************************)
(* The constructor of Release on its own: it is given the assets of one    *)
(* release and goes through them in list order.                            *)
(***************************************************************************)
\* the filenames of the assets: images of the three kinds, two of a kind that
\* go by the same architecture and vendor, names with capitals, with "-",
\* "_" and "." in the model, with a feature called as a kind, with something
\* after ".zip", and names that are no image
AssetNames ==
  { RootfsName,
    "droidian-rootfs-API29-arm64_20210202.zip",
    "droidian-rootfs-api28gsi-armhf_20210101.zip",
    "droidian-rootfs-api28gsi-arm64_20210101.zip.sha256",
    "droidian-rootfs-api28gsi-ARM64_20210101.zip",
    "droidian-adaptation-fxtec-pro1-arm64_20210101.zip",
    "droidian-adaptation-fxtec-pro1-arm64_20210202.zip",
    "droidian-adaptation-fxtec-pro1-x-arm64_20210101.zip",
    "droidian-adaptation-Volla-yggdrasil_x.2-arm64_7.zip",
    "droidian-devtools-arm64_20210101.zip",
    "droidian-rootfs-arm64_20210101.zip",
    "SHA256SUMS" }

\* each of them from the repository and from another origin
AssetSamples ==
  { Asset(name, base \o "bullseye/" \o name) :
      name \in AssetNames, base \in {TrustedBase, UntrustedBase} }

MaxAssets == 2

ReleaseInputs ==
  { [tag_name |-> "bullseye", assets |-> assets] :
      assets \in SeqsUpTo(AssetSamples, MaxAssets) }

\* Release(release_contents) is called: self is an empty dict
ReleaseInit ==
  /\ RouterInit
  /\ release_contents \in ReleaseInputs
  /\ classified = EmptyDict
  /\ asset_index = 0

\* one turn of the loop over release_contents["assets"]
ReleaseAsset ==
  /\ asset_index < Len(release_contents.assets)
  /\ classified' = ClassifyAsset(classified, release_contents.assets[asset_index + 1], 1)
  /\ asset_index' = asset_index + 1
  /\ UNCHANGED << router, release_contents >>

ReleaseNext == ReleaseAsset

ReleaseSpec == ReleaseInit /\ [][ReleaseNext]_vars

(***************************************************************************)
(* The catalog as the specification reads it: a value indexed by           *)
(* repository, version, architecture, vendor and file.                     *)
(***************************************************************************)
Published == Deep(heap, mapping)

Present(catalog, q) ==
  /\ q.repository \in DOMAIN catalog
  /\ q.version \in DOMAIN catalog[q.repository]
  /\ q.architecture \in DOMAIN catalog[q.repository][q.version]
  /\ q.vendor \in DOMAIN catalog[q.repository][q.version][q.architecture]
  /\ q.file \in DOMAIN catalog[q.repository][q.version][q.architecture][q.vendor]

Expected(catalog, q) ==
  IF Present(catalog, q)
  THEN HTTPFound(catalog[q.repository][q.version][q.architecture][q.vendor][q.file])
  ELSE HTTPNotFound

UrlsOf(catalog) ==
  UNION { UNION { UNION { UNION { Range(catalog[r][v][a][vd])
    : vd \in DOMAIN catalog[r][v][a] }
    : a \in DOMAIN catalog[r][v] }
    : v \in DOMAIN catalog[r] }
    : r \in DOMAIN catalog }

CycleInProgress == pc \in {"get", "json", "exit"}

\* the fetch gave a response the specification counts as a failure:
\* a status other than 200, or a content type that is not JSON
NonJson(headers) ==
  \/ "Content-Type" \notin DOMAIN headers
  \/ "application/json" \notin Range(Split(headers["Content-Type"], ";"))

FetchFailed(f) == f.kind = "response" /\ (f.status # 200 \/ NonJson(f.headers))

\* a failure of any kind, the network error included
FetchFailedAnyWay(f) == f.kind = "raised" \/ FetchFailed(f)

(***************************************************************************)
(* C1: a query that runs while a refresh cycle is in progress is answered  *)
(* from exactly one published snapshot: what the handler reads is, at      *)
(* every moment, the catalog create_map returned last (the empty one       *)
(* before the first return), and the response it raises is the outcome     *)
(* that catalog determines; never a catalog that is partly the new one.    *)
(***************************************************************************)
C1_AtomicVisibility ==
  /\ Published = snapshot
  /\ answer # NoAnswer => answer = Answer(answer.request, Expected(snapshot, answer.request))

\* a query answered with a redirect while the cycle had built, and not yet
\* published, a catalog that answers it otherwise
C1_Witness ==
  /\ pc = "exit"
  /\ answer.status = 302
  /\ Expected(Deep(heap, new_mapping), answer.request) # Expected(snapshot, answer.request)

(***************************************************************************)
(* C2: for every request and every published catalog the handler answers  *)
(* 302 with location Catalog[repository][version][architecture][vendor]    *)
(* [file] when the five levels are present, 404 when a level is absent,    *)
(* and nothing else.                                                       *)
(***************************************************************************)
C2_RedirectOrNotFound ==
  /\ \A q \in Requests :
       /\ Present(Published, q) =>
            request_handler(q) =
              HTTPFound(Published[q.repository][q.version][q.architecture][q.vendor][q.file])
       /\ ~Present(Published, q) => request_handler(q) = HTTPNotFound
  /\ answer # NoAnswer =>
       /\ answer.status \in {302, 404}
       /\ answer.status = 302 <=> Present(Published, answer.request)

\* a redirect was raised, and another request finds every level but the vendor
C2_Witness ==
  /\ answer.status = 302
  /\ Present(Published, answer.request)
  /\ \E q \in Requests :
       /\ q.repository \in DOMAIN Published
       /\ q.version \in DOMAIN Published[q.repository]
       /\ q.architecture \in DOMAIN Published[q.repository][q.version]
       /\ q.vendor \notin DOMAIN Published[q.repository][q.version][q.architecture]
       /\ request_handler(q).status = 404

(***************************************************************************)
(* C3: every URL a query can be redirected to, in the published catalog    *)
(* and in the one under construction, starts with an allowed prefix,       *)
(* whatever the remote source returned.                                    *)
(***************************************************************************)
C3_OnlyTrustedTargets ==
  /\ \A u \in UrlsOf(Published) : StartsWithAny(u, ALLOWED_PREFIXES)
  /\ new_mapping # None =>
       \A u \in UrlsOf(Deep(heap, new_mapping)) : StartsWithAny(u, ALLOWED_PREFIXES)
  /\ answer.status = 302 => StartsWithAny(answer.location, ALLOWED_PREFIXES)

\* a published cycle got a release with a rootfs asset of an origin that is not
\* allowed, and the query for it was answered 404
C3_Witness ==
  /\ pc = "sleep"
  /\ answer.status = 404
  /\ answer.request.architecture = "arm64"
  /\ answer.request.vendor = "generic"
  /\ answer.request.file = "rootfs.zip"
  /\ answer.request.repository \in ShortNames
  /\ LET f == last_fetch[answer.request.repository] IN
       /\ f.body = "read"
       /\ \E n \in DOMAIN f.content :
            /\ slugify(f.content[n].tag_name) = answer.request.version
            /\ answer.request.version \in DOMAIN Published[answer.request.repository]
            /\ \E k \in DOMAIN f.content[n].assets :
                 LET a == f.content[n].assets[k] IN
                   /\ Match(DROIDIAN_ROOTFS, a.name).matched
                   /\ ~StartsWithAny(a.browser_download_url, ALLOWED_PREFIXES)

(***************************************************************************)
(* C4: when the fetch of repository R gave a status other than 200 or a    *)
(* content type that is not JSON, the publication of that cycle leaves R   *)
(* with an empty entry and every query under R answered 404, whatever the  *)
(* snapshot published before held for R.                                   *)
(***************************************************************************)
C4_FailedFetchPublishesEmpty ==
  [][ \A r \in ShortNames :
        (pc = "exit" /\ pc' = "sleep" /\ FetchFailed(last_fetch[r])) =>
          /\ r \in DOMAIN Published'
          /\ DOMAIN Published'[r] = {}
          /\ \A q \in Requests :
               q.repository = r => request_handler(q)' = HTTPNotFound ]_vars

\* the cycle's fetch of R failed and the cycle is about to publish, while the
\* snapshot still published holds a release of R and serves it
C4_Witness ==
  /\ pc = "exit"
  /\ answer.status = 302
  /\ answer.request.repository \in ShortNames
  /\ FetchFailed(last_fetch[answer.request.repository])
  /\ DOMAIN snapshot[answer.request.repository] # {}
  /\ DOMAIN Deep(heap, new_mapping)[answer.request.repository] = {}

(***************************************************************************)
(* C5: the refresh loop never terminates on its own: whatever way a fetch  *)
(* failed, the task is still in its loop (fetching, publishing, sleeping). *)
(***************************************************************************)
C5_RefreshLoopNeverTerminates ==
  (\E r \in ShortNames : FetchFailedAnyWay(last_fetch[r])) => pc # "dead"

(***************************************************************************)
(* C6: a fetch failure of any kind for one repository is recovered inside  *)
(* the cycle: the step that meets it goes on to the next repository or to  *)
(* the publication, with the catalog under construction kept and the       *)
(* failed repository's entry in it empty.                                  *)
(***************************************************************************)
C6_FetchFailureRecoveredLocally ==
  [][ (/\ pc = "get"
       /\ pc' # pc \/ repo_index' # repo_index
       /\ FetchFailedAnyWay(last_fetch'[CurrentShortName])) =>
        /\ pc' \in {"get", "exit"}
        /\ new_mapping' = new_mapping
        /\ CurrentShortName \in DOMAIN Deep(heap', new_mapping')
        /\ DOMAIN Deep(heap', new_mapping')[CurrentShortName] = {} ]_vars

(***************************************************************************)
(* The releases of a response, as the specification speaks of them.        *)
(***************************************************************************)
StableLatest == "droidian-stable-latest"

SlugAt(content, n) == slugify(content[n].tag_name)

\* the release's slug does not contain "nightly"
StableAt(content, n) == ~Contains(SlugAt(content, n), "nightly")

\* the release's classification is not empty
ClassifiedAt(content, n) == DOMAIN Release(content[n]) # {}

Min(S) == CHOOSE x \in S : \A y \in S : x <= y
Max(S) == CHOOSE x \in S : \A y \in S : x >= y

\* the (architecture, vendor, file) places the patterns give an asset
Places(asset) ==
  { LET g == Match(Patterns[k], asset.name).groups
    IN << g["architecture"], DictGet(g, "vendor", "generic"), Target(g) >>
    : k \in { j \in DOMAIN Patterns : Match(Patterns[j], asset.name).matched } }

\* the trusted assets of the release that are classified to the request's place
Holding(release, q) ==
  { k \in DOMAIN release.assets :
      /\ StartsWithAny(release.assets[k].browser_download_url, ALLOWED_PREFIXES)
      /\ << q.architecture, q.vendor, q.file >> \in Places(release.assets[k]) }

\* the fetch of r went through: a body was read
FetchSucceeded(r) == r \in ShortNames /\ last_fetch[r].body = "read"

(***************************************************************************)
(* C7, as claimed: after a cycle in which the fetch of R succeeded, the    *)
(* entry "droidian-stable-latest" holds the classification of the first    *)
(* release whose slug does not contain "nightly", and is absent exactly    *)
(* when no returned release has such a slug.                               *)
(***************************************************************************)
C7_AliasIsFirstStable ==
  \A r \in ShortNames :
    (pc = "sleep" /\ FetchSucceeded(r)) =>
      LET c      == last_fetch[r].content
          stable == { n \in DOMAIN c : StableAt(c, n) }
      IN IF stable = {} THEN StableLatest \notin DOMAIN Published[r]
         ELSE /\ StableLatest \in DOMAIN Published[r]
              /\ Published[r][StableLatest] = Release(c[Min(stable)])

(***************************************************************************)
(* C7, amended: after a cycle in which the fetch of R succeeded, the entry *)
(* "droidian-stable-latest" holds what R's map holds under the slug of the *)
(* first release, in response order, that has a non-empty classification   *)
(* and a slug without "nightly": the classification of the last release    *)
(* with that slug and a non-empty classification.  The entry is absent     *)
(* exactly when no returned release has a non-empty classification and     *)
(* such a slug.                                                            *)
(***************************************************************************)
C7_AliasIsFirstClassifiedStable ==
  \A r \in ShortNames :
    (pc = "sleep" /\ FetchSucceeded(r)) =>
      LET c        == last_fetch[r].content
          eligible == { n \in DOMAIN c : StableAt(c, n) /\ ClassifiedAt(c, n) }
      IN IF eligible = {} THEN StableLatest \notin DOMAIN Published[r]
         ELSE LET slug == SlugAt(c, Min(eligible))
                  same == { n \in DOMAIN c : SlugAt(c, n) = slug /\ ClassifiedAt(c, n) }
              IN /\ StableLatest \in DOMAIN Published[r]
                 /\ Published[r][StableLatest] = Release(c[Max(same)])
                 /\ Published[r][StableLatest] = Published[r][slug]

\* a published response whose first release without "nightly" in its slug has an
\* empty classification, a later one has not, and the alias was served
C7_Witness ==
  /\ pc = "sleep"
  /\ answer.status = 302
  /\ answer.request.version = StableLatest
  /\ FetchSucceeded(answer.request.repository)
  /\ LET c      == last_fetch[answer.request.repository].content
         stable == { n \in DOMAIN c : StableAt(c, n) }
     IN /\ stable # {}
        /\ ~ClassifiedAt(c, Min(stable))
        /\ \E n \in DOMAIN c : ~StableAt(c, n) /\ n < Min(stable)

(***************************************************************************)
(* C8, as claimed: at any time a query for (R, S, A, V, F) resolves to a   *)
(* URL if and only if the most recent successful fetch of R returned a     *)
(* release with slug S holding a trusted asset classified to (A, V, F),    *)
(* the URL being that asset's; every other query yields 404.  It is        *)
(* stated for the states in which the latest fetch of R is that            *)
(* successful fetch, or no fetch was made yet.                             *)
(***************************************************************************)
C8_ResolvesIffFetched ==
  \A q \in Requests :
    LET r == q.repository IN
    (r \in ShortNames => (last_fetch[r].kind = "none" \/ FetchSucceeded(r))) =>
      LET c    == IF FetchSucceeded(r) THEN last_fetch[r].content ELSE <<>>
          rels == { n \in DOMAIN c : SlugAt(c, n) = q.version /\ Holding(c[n], q) # {} }
      IN IF rels # {}
         THEN /\ request_handler(q).status = 302
              /\ \E n \in rels : \E k \in Holding(c[n], q) :
                   request_handler(q).location = c[n].assets[k].browser_download_url
         ELSE request_handler(q) = HTTPNotFound

(***************************************************************************)
(* C8, amended: while the refresh task is between two cycles (not yet      *)
(* run, or asleep after a publication), a query for (R, S, A, V, F) with   *)
(* S other than "droidian-stable-latest" resolves to a URL if and only if  *)
(* the fetch of R in the cycle just published succeeded and the last       *)
(* release of its response with slug S and a non-empty classification      *)
(* holds a trusted asset classified to (A, V, F); the URL is the download  *)
(* URL of the last such asset.  Every other such query yields 404.         *)
(***************************************************************************)
C8_ResolvesIffPublishedFetch ==
  pc \in {"start", "sleep"} =>
    \A q \in Requests :
      q.version # StableLatest =>
        LET r    == q.repository
            c    == IF FetchSucceeded(r) THEN last_fetch[r].content ELSE <<>>
            same == { n \in DOMAIN c : SlugAt(c, n) = q.version /\ ClassifiedAt(c, n) }
        IN IF same # {} /\ Holding(c[Max(same)], q) # {}
           THEN request_handler(q) =
                  HTTPFound(c[Max(same)].assets[Max(Holding(c[Max(same)], q))].browser_download_url)
           ELSE request_handler(q) = HTTPNotFound

\* two releases of the published response share the slug that was asked for,
\* and the query was served
C8_Witness ==
  /\ pc = "sleep"
  /\ answer.status = 302
  /\ answer.request.version # StableLatest
  /\ FetchSucceeded(answer.request.repository)
  /\ LET c == last_fetch[answer.request.repository].content
     IN \E m, n \in DOMAIN c :
          /\ m < n
          /\ SlugAt(c, m) = answer.request.version
          /\ SlugAt(c, n) = answer.request.version
          /\ c[m] # c[n]

(***************************************************************************)
(* C9: the refresh task never blocks a query.  While it is suspended (in   *)
(* a fetch, however long, in the reading of a body, on leaving create_map  *)
(* or in its sleep) the handler can run for every request, and answers     *)
(* from the snapshot published last, which is replaced by nothing but the  *)
(* publication.                                                            *)
(***************************************************************************)
Suspended == pc \in {"get", "json", "exit", "sleep"}

C9_QueriesNeverBlocked ==
  /\ [](Suspended =>
          \A q \in Requests :
            /\ ENABLED RequestHandler(q)
            /\ request_handler(q) = Expected(snapshot, q))
  /\ [][ (Suspended /\ Published' # Published) => (pc = "exit" /\ pc' = "sleep") ]_vars

\* a query was served a redirect while the task awaited a fetch
C9_Witness ==
  /\ pc = "get"
  /\ answer.status = 302
  /\ answer = Answer(answer.request, Expected(snapshot, answer.request))

(***************************************************************************)
(* C10: the content of a published snapshot never changes.  No step writes *)
(* to a dict the published mapping reaches, and none is freed while it is  *)
(* published; a query changes neither the heap nor the reference; the      *)
(* reference changes in the publication alone, which writes to no dict;    *)
(* the catalog under construction is a new dict that shares no dict with   *)
(* the published one.                                                      *)
(***************************************************************************)
C10_PublishedSnapshotImmutable ==
  [][ /\ \A id \in ReachableFrom(heap, mapping) :
           IF id \in DOMAIN heap' THEN heap'[id] = heap[id] ELSE mapping' # mapping
      /\ answer' # NoAnswer => (heap' = heap /\ mapping' = mapping)
      /\ mapping' # mapping =>
           /\ pc = "exit" /\ pc' = "sleep"
           /\ mapping' = new_mapping
           /\ \A id \in ReachableFrom(heap, new_mapping) : heap'[id] = heap[id]
      /\ (new_mapping' # None /\ new_mapping' # new_mapping) => new_mapping' \notin DOMAIN heap
      /\ new_mapping' # None =>
           ReachableFrom(heap', new_mapping') \cap ReachableFrom(heap', mapping') = {}
    ]_vars

\* a query was served from the published snapshot while the cycle had written
\* to the catalog it is building
C10_Witness ==
  /\ pc = "json"
  /\ answer.status = 302
  /\ new_mapping # None
  /\ DOMAIN heap[new_mapping] # {}
  /\ Published = snapshot

(***************************************************************************)
(* The filenames of the three kinds, as the specification writes them, and *)
(* the parts the filenames of AssetNames are made of.                      *)
(***************************************************************************)
RootfsFile(flavour, architecture, date) ==
  "droidian-rootfs-" \o flavour \o "-" \o architecture \o "_" \o date \o ".zip"

AdaptationFile(vendor, model, architecture, date) ==
  "droidian-adaptation-" \o vendor \o "-" \o model \o "-" \o architecture
    \o "_" \o date \o ".zip"

FeatureFile(feature, architecture, date) ==
  "droidian-" \o feature \o "-" \o architecture \o "_" \o date \o ".zip"

Flavours      == {"api28gsi", "API29"}
Architectures == {"arm64", "armhf"}
Dates         == {"20210101", "20210202", "7"}
Vendors       == {"fxtec", "Volla"}
Models        == {"pro1", "pro1-x", "yggdrasil_x.2"}
Features      == {"devtools", "rootfs"}

\* the entries of a classification: (architecture, vendor, file, URL)
EntriesOf(d) ==
  UNION { UNION { { << a, v, f, d[a][v][f] >> : f \in DOMAIN d[a][v] }
    : v \in DOMAIN d[a] }
    : a \in DOMAIN d }

\* the asset the constructor has just gone through
CurrentAsset == release_contents.assets[asset_index]

SourceTrusted(asset) == StartsWithAny(asset.browser_download_url, ALLOWED_PREFIXES)

\* the asset's URL is held at this place and at no other
HeldOnlyAt(d, asset, a, v, f) ==
  { e \in EntriesOf(d) : e[4] = asset.browser_download_url }
    = { << a, v, f, asset.browser_download_url >> }

Matching(asset) == { k \in DOMAIN Patterns : Match(Patterns[k], asset.name).matched }

ConstructorDone == asset_index = Len(release_contents.assets)

C12_EmptyWithoutTrustedMatch ==
  LET assets == release_contents.assets IN
  (/\ ConstructorDone
   /\ \/ \A k \in DOMAIN assets : Matching(assets[k]) = {}
      \/ \A k \in DOMAIN assets : ~SourceTrusted(assets[k])) =>
    classified = EmptyDict

(***************************************************************************)
(* The catalog a cycle's responses determine, written from the responses   *)
(* alone: per repository, under each slug the classification of the last   *)
(* release of that slug that has one, and under the alias what the slug    *)
(* of the first such release without "nightly" holds.                      *)
(***************************************************************************)
RepoCatalogOf(f) ==
  IF f.body # "read" THEN EmptyDict
  ELSE LET c        == f.content
           cls      == { n \in DOMAIN c : ClassifiedAt(c, n) }
           slugs    == { SlugAt(c, n) : n \in cls }
           base     == [ name \in slugs |->
                           Release(c[Max({ n \in cls : SlugAt(c, n) = name })]) ]
           eligible == { n \in cls : StableAt(c, n) }
       IN IF eligible = {} THEN base
          ELSE DictSet(base, StableLatest, base[SlugAt(c, Min(eligible))])

CatalogOf(fetches) == [ r \in ShortNames |-> RepoCatalogOf(fetches[r]) ]

(***************************************************************************)
(* C13: classification keeps no state from one use to the next: the        *)
(* catalog a cycle has built, and the one it publishes, is the value the   *)
(* responses of that cycle determine, whatever the earlier cycles got and  *)
(* published; so two cycles with the same responses publish structurally   *)
(* identical catalogs.                                                     *)
(***************************************************************************)
C13_CatalogDeterminedByResponses ==
  /\ pc = "exit"  => Deep(heap, new_mapping) = CatalogOf(last_fetch)
  /\ pc = "sleep" => Published = CatalogOf(last_fetch)

\* a cycle has built, in dicts of its own, a catalog with a release in it that
\* is structurally identical to the published one
C13_Witness ==
  /\ pc = "exit"
  /\ new_mapping # mapping
  /\ Deep(heap, new_mapping) = Published
  /\ \A r \in ShortNames :
       /\ FetchSucceeded(r)
       /\ Len(last_fetch[r].content) >= 2
       /\ DOMAIN Published[r] # {}
       /\ heap[new_mapping][r] # heap[mapping][r]

(***************************************************************************)
(* C14: in the classification, at every turn of the loop, an               *)
(* (architecture, vendor, file) place holds one URL, the one of the last   *)
(* trusted asset gone through so far that classifies to it; every trusted  *)
(* asset that classifies to a place has left the place filled.             *)
(***************************************************************************)
\* the trusted assets gone through so far that classify to the place
Writers(place) ==
  { k \in 1..asset_index :
      /\ SourceTrusted(release_contents.assets[k])
      /\ place \in Places(release_contents.assets[k]) }

C14_LastWriteWins ==
  /\ \A e \in EntriesOf(classified) :
       LET place == << e[1], e[2], e[3] >> IN
         /\ Writers(place) # {}
         /\ e[4] = release_contents.assets[Max(Writers(place))].browser_download_url
  /\ \A e1, e2 \in EntriesOf(classified) :
       (e1[1] = e2[1] /\ e1[2] = e2[2] /\ e1[3] = e2[3]) => e1 = e2
  /\ \A k \in 1..asset_index :
       SourceTrusted(release_contents.assets[k]) =>
         \A place \in Places(release_contents.assets[k]) :
           \E e \in EntriesOf(classified) : << e[1], e[2], e[3] >> = place

\* two trusted assets with different URLs classify to one place, and the
\* place holds the URL of the second
C14_Witness ==
  /\ asset_index = 2
  /\ LET first  == release_contents.assets[1]
         second == release_contents.assets[2]
     IN /\ SourceTrusted(first) /\ SourceTrusted(second)
        /\ first.browser_download_url # second.browser_download_url
        /\ Places(first) = Places(second)
        /\ Places(first) # {}
        /\ EntriesOf(classified) =
             { << p[1], p[2], p[3], second.browser_download_url >> : p \in Places(second) }

(***************************************************************************)
(* C15: an asset is classified by at most one pattern, the first of        *)
(* rootfs, adaptation, feature that matches its name: the turn of the loop *)
(* that takes it adds or changes at most one entry, at the place that      *)
(* pattern gives, and creates no architecture or vendor but that place's;  *)
(* an asset whose name matches no pattern leaves the classification as it  *)
(* was.                                                                    *)
(***************************************************************************)
\* the place the first pattern that matches gives the asset
FirstPlace(asset) ==
  LET g == Match(Patterns[Min(Matching(asset))], asset.name).groups
  IN << g["architecture"], DictGet(g, "vendor", "generic"), Target(g) >>

\* the (architecture, vendor) pairs of a classification
VendorsOf(d) == UNION { { << a, v >> : v \in DOMAIN d[a] } : a \in DOMAIN d }

C15_FirstMatchingPatternOnly ==
  [][ asset_index' = asset_index + 1 =>
        LET asset   == release_contents.assets[asset_index']
            written == EntriesOf(classified') \ EntriesOf(classified)
        IN /\ Cardinality(Matching(asset)) <= 1
           /\ Cardinality(written) <= 1
           /\ IF Matching(asset) = {}
              THEN classified' = classified
              ELSE LET place == FirstPlace(asset) IN
                   /\ \A e \in written :
                        e = << place[1], place[2], place[3], asset.browser_download_url >>
                   /\ VendorsOf(classified') =
                        VendorsOf(classified) \cup { << place[1], place[2] >> }
    ]_vars

\* a trusted rootfs image was classified, to one place, and a file that is no
\* image was then gone through
C15_Witness ==
  /\ asset_index = 2
  /\ release_contents.assets[1].name = RootfsName
  /\ SourceTrusted(release_contents.assets[1])
  /\ Matching(release_contents.assets[1]) = {1}
  /\ Matching(release_contents.assets[2]) = {}
  /\ EntriesOf(classified) =
       { << "arm64", "generic", "rootfs.zip", release_contents.assets[1].browser_download_url >> }

(***************************************************************************)
(* C16: a cycle that an exception ends (session.get raised, the response   *)
(* had no Content-Type, the body or a release could not be read) publishes *)
(* nothing: the step that ends it leaves the published reference and the   *)
(* published catalog as they were, drops the catalog under construction,   *)
(* and every query is answered afterwards as it was before the cycle.      *)
(***************************************************************************)
Aborted(f) ==
  \/ f.kind = "raised"
  \/ f.kind = "response" /\ f.status = 200 /\ "Content-Type" \notin DOMAIN f.headers
  \/ f.kind = "response" /\ f.body = "raised"

C16_AbortedCyclePublishesNothing ==
  /\ [][ (pc # "dead" /\ pc' = "dead") =>
           /\ \E r \in ShortNames : Aborted(last_fetch'[r])
           /\ mapping' = mapping
           /\ Published' = Published
           /\ Published' = snapshot
           /\ new_mapping' = None
           /\ \A q \in Requests : request_handler(q)' = request_handler(q) ]_vars
  /\ [][ pc = "dead" =>
           /\ pc' = "dead"
           /\ Published' = Published
           /\ \A q \in Requests : request_handler(q)' = Expected(snapshot, q) ]_vars

\* the cycle was ended by an exception after it had put the repository in
\* its catalog, and a query was then served from the snapshot of before
C16_Witness ==
  /\ pc = "dead"
  /\ answer.status = 302
  /\ answer.request.repository \in ShortNames
  /\ last_fetch[answer.request.repository].body = "raised"
  /\ Published = snapshot
  /\ new_mapping = None

(***************************************************************************)
(* C17: from the start of the process until a cycle publishes, the         *)
(* published catalog is empty and every query is answered 404: it is so    *)
(* when the router is constructed, when requests can already be handled,   *)
(* and every step but a publication keeps it so.                           *)
(***************************************************************************)
NothingPublished ==
  /\ Published = EmptyDict
  /\ \A q \in Requests : request_handler(q) = HTTPNotFound
  /\ answer # NoAnswer => answer.status = 404

C17_EmptyUntilFirstPublication ==
  /\ NothingPublished
  /\ pc = "start"
  /\ \A q \in Requests : ENABLED RequestHandler(q)
  /\ [][ (NothingPublished /\ ~(pc = "exit" /\ pc' = "sleep")) => NothingPublished' ]_vars

\* nothing was published yet, the first cycle has built a catalog that holds
\* a release, and the query for it was answered 404
C17_Witness ==
  /\ NothingPublished
  /\ pc = "exit"
  /\ answer.status = 404
  /\ Expected(Deep(heap, new_mapping), answer.request).status = 302

(***************************************************************************)
(* C18: in a published snapshot, a repository that has the entry           *)
(* "droidian-stable-latest" got, in the cycle that built the snapshot, a   *)
(* release whose slug does not contain "nightly" and is a key of the       *)
(* repository's map, and a query through the alias is answered as the      *)
(* same query through that slug: the same redirect, or 404 for both.       *)
(***************************************************************************)
Through(q, version) == [q EXCEPT !.version = version]

C18_AliasAgreesWithStableRelease ==
  pc = "sleep" =>
    \A r \in ShortNames :
      StableLatest \in DOMAIN Published[r] =>
        /\ FetchSucceeded(r)
        /\ \E n \in DOMAIN last_fetch[r].content :
             LET c == last_fetch[r].content IN
               /\ StableAt(c, n)
               /\ SlugAt(c, n) \in DOMAIN Published[r]
               /\ Published[r][StableLatest] = Published[r][SlugAt(c, n)]
               /\ \A q \in Requests :
                    q.repository = r =>
                      request_handler(Through(q, StableLatest))
                        = request_handler(Through(q, SlugAt(c, n)))

\* the published response held a release and, after it, one whose tag is the
\* name of the alias; a query through the alias was redirected to the asset
\* of the first
C18_Witness ==
  /\ pc = "sleep"
  /\ answer.status = 302
  /\ answer.request.version = StableLatest
  /\ FetchSucceeded(answer.request.repository)
  /\ LET c == last_fetch[answer.request.repository].content
     IN /\ Len(c) = 2
        /\ c[2].tag_name = StableLatest
        /\ SlugAt(c, 1) # StableLatest
        /\ answer.location = c[1].assets[1].browser_download_url
        /\ answer.location # c[2].assets[1].browser_download_url

(***************************************************************************)
(* Releases of one response that share a slug.                             *)
(***************************************************************************)
\* the releases of the response with that slug, and those of them that have
\* a classification
WithSlug(c, name)       == { n \in DOMAIN c : SlugAt(c, n) = name }
ClassifiedWithSlug(c, name) == { n \in WithSlug(c, name) : ClassifiedAt(c, n) }

\* the releases that can give the alias
Eligible(c) == { n \in DOMAIN c : StableAt(c, n) /\ ClassifiedAt(c, n) }

\* two releases of different tag names share the slug
SharedSlug(c, name) ==
  \E m, n \in WithSlug(c, name) : m < n /\ c[m].tag_name # c[n].tag_name

(***************************************************************************)
(* C19, as claimed: when two releases of a response have different tag     *)
(* names and the same slug, the map holds under the slug the               *)
(* classification of the later one; the alias replaces a release named     *)
(* "droidian-stable-latest"; an alias recorded for the earlier release     *)
(* resolves to the classification of the later one.                        *)
(***************************************************************************)
C19_LaterReleaseReplaces ==
  \A r \in ShortNames :
    (pc = "sleep" /\ FetchSucceeded(r)) =>
      LET c == last_fetch[r].content IN
      /\ \A name \in { SlugAt(c, n) : n \in DOMAIN c } \ {StableLatest} :
           (SharedSlug(c, name) /\ name \in DOMAIN Published[r]) =>
              Published[r][name] = Release(c[Max(WithSlug(c, name))])
      /\ (ClassifiedWithSlug(c, StableLatest) # {}) =>
           Published[r][StableLatest] = Published[r][SlugAt(c, Min(Eligible(c)))]
      /\ (Eligible(c) # {} /\ SharedSlug(c, SlugAt(c, Min(Eligible(c))))) =>
           Published[r][StableLatest]
             = Release(c[Max(WithSlug(c, SlugAt(c, Min(Eligible(c)))))])

(***************************************************************************)
(* C19, amended: when two releases of a response have different tag names  *)
(* and the same slug, the map holds under the slug the classification of   *)
(* the last of them that has a non-empty classification, as a whole, and   *)
(* no entry when none has; a release with an empty classification          *)
(* replaces nothing.  The alias replaces a release named                   *)
(* "droidian-stable-latest", and an alias recorded for a release resolves  *)
(* to what the map holds under that release's slug when the cycle ends.    *)
(***************************************************************************)
C19_LaterClassifiedReleaseReplaces ==
  \A r \in ShortNames :
    (pc = "sleep" /\ FetchSucceeded(r)) =>
      LET c == last_fetch[r].content IN
      /\ \A name \in { SlugAt(c, n) : n \in DOMAIN c } \ {StableLatest} :
           SharedSlug(c, name) =>
              IF ClassifiedWithSlug(c, name) = {}
              THEN name \notin DOMAIN Published[r]
              ELSE Published[r][name] = Release(c[Max(ClassifiedWithSlug(c, name))])
      /\ (ClassifiedWithSlug(c, StableLatest) # {}) =>
           Published[r][StableLatest] = Published[r][SlugAt(c, Min(Eligible(c)))]
      /\ (Eligible(c) # {} /\ SharedSlug(c, SlugAt(c, Min(Eligible(c))))) =>
           Published[r][StableLatest]
             = Release(c[Max(ClassifiedWithSlug(c, SlugAt(c, Min(Eligible(c)))))])

\* the published response held a release with an image and, later, a release
\* of another tag name and the same slug with no classification; the query
\* under the slug was redirected to the image of the earlier one
C19_Witness ==
  /\ pc = "sleep"
  /\ answer.status = 302
  /\ answer.request.version # StableLatest
  /\ FetchSucceeded(answer.request.repository)
  /\ LET c == last_fetch[answer.request.repository].content
     IN \E m, n \in WithSlug(c, answer.request.version) :
          /\ m < n
          /\ n = Max(WithSlug(c, answer.request.version))
          /\ c[m].tag_name # c[n].tag_name
          /\ ~ClassifiedAt(c, n)
          /\ answer.location = c[m].assets[1].browser_download_url

=============================================================================
